---- MODULE Spec2Model ----
(***************************************************************************)
(* CodeExecutor (src/executor.go): a worker pool built on a buffered       *)
(* channel, a per-request deadline raced against a dispatch goroutine, the *)
(* two language runners and Shutdown.                                      *)
(*                                                                         *)
(* Time is counted in whole seconds.  A goroutine step takes no time: the  *)
(* clock advances (Tick) only when no goroutine has a step it can take,    *)
(* and then to the next instant at which a timer runs out.  The only       *)
(* delays are the blocking ones of the code: a full pool, the select, and  *)
(* the wait for the interpreter process.  Calls of Execute and Shutdown    *)
(* arrive from the environment between any two steps.                      *)
(*                                                                         *)
(* The messages of the code are Chinese; they are written here in ASCII.   *)
(***************************************************************************)
EXTENDS Integers, Sequences, FiniteSets, TLC

\* ---------------------------------------------------------------- bounds
NumCalls == 2
NumShutdowns == 2
MaxPool == 2

Calls == 1..NumCalls
Shutdowns == 1..NumShutdowns

\* constructor arguments tried: NewCodeExecutor(timeout, maxWorkers)
Timeouts == {0, 2, 31}
PoolSizes == 0..MaxPool

\* inputs of Execute: program texts and language tags
Codes == {"print", "fail", "loop"}
Requests ==
    {<<cd, "python3">> : cd \in Codes}
    \cup {<<"print", "nodejs">>, <<"print", "ruby">>, <<"loop", "ruby">>}

\* context.WithTimeout(context.Background(), 30*time.Second) in both runners
RunnerDeadline == 30

\* a process that does not end by itself
Forever == 99

\* make(chan ExecutionResult, 1)
ResultChanCap == 1

\* the names os.CreateTemp can give to a staging file; NoFile: no file
Names == 1..NumCalls
NoFile == 0

VARIABLES
    maxWorkers,       \* e.maxWorkers
    timeout,          \* e.timeout, in seconds
    nodejsAvailable,  \* e.nodejsAvailable
    workerPool,       \* number of tokens in the channel e.workerPool
    epc,              \* position of each Execute call
    language,         \* argument of each Execute call
    code,             \* argument of each Execute call
    ctxLeft,          \* seconds until ctx.Done() of the call is closed
    resultChan,       \* the call's resultChan (capacity 1)
    ret,              \* the value the call returns
    tpc,              \* position of the call's dispatch goroutine
    result,           \* the goroutine's local variable result
    runLeft,          \* seconds until the interpreter process ends by itself
    killLeft,         \* seconds until the runner's own context kills it
    tmpFile,          \* the runner's tmpFile: the name of its staging file
    tmpDir,           \* the names of the files in the temporary directory
    outcome,          \* how the runner of the call came to its result
    spc,              \* position of each Shutdown call
    si,               \* loop counter i of each Shutdown call
    waited,           \* seconds the call spent before it got its token
    sinceAdmit,       \* seconds from then to its return (both up to timeout + 1)
    released,         \* how many tokens the call has taken back from the pool
    doneAtSend        \* was ctx.Done() closed when the result was sent

cfgVars == <<maxWorkers, timeout, nodejsAvailable>>
execVars == <<epc, language, code, ctxLeft, resultChan, ret>>
taskVars == <<tpc, result, runLeft, killLeft>>
runnerVars == <<tmpFile, tmpDir, outcome>>
shutVars == <<spc, si>>
obsVars == <<waited, sinceAdmit, released, doneAtSend>>
vars == <<cfgVars, workerPool, execVars, taskVars, runnerVars, shutVars,
          obsVars>>

\* ------------------------------------------------------- ExecutionResult
ExecutionResult(s, o, e) == [Success |-> s, Output |-> o, Error |-> e]

NoResult == [Success |-> FALSE, Output |-> "<none>", Error |-> "<none>"]

\* fmt.Sprintf("...: %s", language)
UnsupportedMsg(lang) == "unsupported language: " \o lang

NodeUnavailableMsg == "Node.js is not installed or not available"

\* fmt.Sprintf("... (>%d s)", int(e.timeout.Seconds()))
TimeoutMsg(t) == "code execution timed out (>" \o ToString(t) \o "s)"

CreateTempFailedMsg == "failed to create temporary file: <err>"

WriteFailedMsg == "failed to write code: <err>"

\* -------------------------------------------------- interpreter process
\* What the interpreter does with each program text: how long it runs,
\* how it exits, and what it has written to stdout and stderr by then.
Interp(cd) ==
    CASE cd = "print" -> [time |-> 1, exit |-> 0, stdout |-> "hello\n", stderr |-> ""]
      [] cd = "fail"  -> [time |-> 2, exit |-> 1, stdout |-> "partial", stderr |-> "Traceback"]
      [] cd = "loop"  -> [time |-> Forever, exit |-> 0, stdout |-> "tick", stderr |-> ""]

\* variant: a failed run loses what the process wrote to stdout
RunResult_DropsOutput(ok, out, err) ==
    IF ok THEN ExecutionResult(TRUE, out, "")
          ELSE ExecutionResult(FALSE, "", err)

\* err = cmd.Run(); the result built from err and the two buffers: err is
\* only compared with nil, Error is stderr.String()
RunResult(ok, out, err) ==
    IF ok THEN ExecutionResult(TRUE, out, "")
          ELSE ExecutionResult(FALSE, out, err)

\* ---------------------------------------------------------- staging file
\* os.CreateTemp opens the file with O_EXCL: a name no file has
FreeNames == Names \ tmpDir

\* variant: the file is left behind
RemoveTemp_Skipped(dir, n) == dir

\* defer os.Remove(tmpFile.Name())
RemoveTemp(dir, n) == dir \ {n}

\* ------------------------------------------------------- initial state
Init ==
    /\ maxWorkers \in PoolSizes
    /\ timeout \in Timeouts
    /\ nodejsAvailable \in BOOLEAN
    /\ workerPool = 0
    /\ epc = [c \in Calls |-> "idle"]
    /\ language = [c \in Calls |-> "python3"]
    /\ code = [c \in Calls |-> "print"]
    /\ ctxLeft = [c \in Calls |-> 0]
    /\ resultChan = [c \in Calls |-> <<>>]
    /\ ret = [c \in Calls |-> NoResult]
    /\ tpc = [c \in Calls |-> "none"]
    /\ result = [c \in Calls |-> NoResult]
    /\ runLeft = [c \in Calls |-> 0]
    /\ killLeft = [c \in Calls |-> 0]
    /\ tmpFile = [c \in Calls |-> NoFile]
    /\ tmpDir = {}
    /\ outcome = [c \in Calls |-> "none"]
    /\ spc = [s \in Shutdowns |-> "idle"]
    /\ si = [s \in Shutdowns |-> 0]
    /\ waited = [c \in Calls |-> 0]
    /\ sinceAdmit = [c \in Calls |-> 0]
    /\ released = [c \in Calls |-> 0]
    /\ doneAtSend = [c \in Calls |-> FALSE]

\* --------------------------------------------------------------- Execute
\* a caller invokes e.Execute(cd, lang); the calls are numbered in the
\* order in which they are made
Call(c) ==
    /\ epc[c] = "idle"
    /\ \A d \in Calls : d < c => epc[d] # "idle"
    /\ \E r \in Requests :
          /\ code' = [code EXCEPT ![c] = r[1]]
          /\ language' = [language EXCEPT ![c] = r[2]]
    /\ epc' = [epc EXCEPT ![c] = "acquire"]
    /\ UNCHANGED <<cfgVars, runnerVars, workerPool, ctxLeft, resultChan, ret,
                   taskVars, shutVars, obsVars>>

\* variant: the capacity test off by one
PoolHasRoom_OffByOne == workerPool <= maxWorkers

\* a send on e.workerPool can proceed: the buffer has room (a channel of
\* capacity 0 has no buffer, and no receiver waits on it before a send)
PoolHasRoom == workerPool < maxWorkers

\* e.workerPool <- struct{}{}; ctx := WithTimeout(e.timeout);
\* resultChan := make(chan ExecutionResult, 1); go func() { ... }()
Acquire(c) ==
    /\ epc[c] = "acquire"
    /\ PoolHasRoom
    /\ workerPool' = workerPool + 1
    /\ ctxLeft' = [ctxLeft EXCEPT ![c] = IF timeout > 0 THEN timeout ELSE 0]
    /\ resultChan' = [resultChan EXCEPT ![c] = <<>>]
    /\ tpc' = [tpc EXCEPT ![c] = "switch"]
    /\ epc' = [epc EXCEPT ![c] = "select"]
    /\ UNCHANGED <<cfgVars, runnerVars, language, code, ret, result, runLeft,
                   killLeft, shutVars, obsVars>>

\* the cases of the select that are ready
ResultReady(c) == Len(resultChan[c]) > 0

\* variant: the deadline fires a second early
CtxDone_Early(c) == ctxLeft[c] <= 1

CtxDone(c) == ctxLeft[c] = 0

\* variant: the message states the runner's deadline instead of e.timeout
TimeoutResult_RunnerDeadline == ExecutionResult(FALSE, "", TimeoutMsg(RunnerDeadline))

\* case <-ctx.Done(): the value returned
TimeoutResult == ExecutionResult(FALSE, "", TimeoutMsg(timeout))

\* variant: the timeout case is taken without waiting for ctx.Done()
Select_NoDeadlineCheck(c) ==
    /\ epc[c] = "select"
    /\ \/ /\ ResultReady(c)
          /\ ret' = [ret EXCEPT ![c] = Head(resultChan[c])]
          /\ resultChan' = [resultChan EXCEPT ![c] = Tail(resultChan[c])]
       \/ /\ ret' = [ret EXCEPT ![c] = TimeoutResult]
          /\ UNCHANGED resultChan
    /\ epc' = [epc EXCEPT ![c] = "release"]
    /\ UNCHANGED <<cfgVars, runnerVars, workerPool, language, code, ctxLeft,
                   taskVars, shutVars, obsVars>>

\* select { case result := <-resultChan: ... case <-ctx.Done(): ... }
\* when both cases are ready the runtime picks either
Select(c) ==
    /\ epc[c] = "select"
    /\ \/ /\ ResultReady(c)
          /\ ret' = [ret EXCEPT ![c] = Head(resultChan[c])]
          /\ resultChan' = [resultChan EXCEPT ![c] = Tail(resultChan[c])]
       \/ /\ CtxDone(c)
          /\ ret' = [ret EXCEPT ![c] = TimeoutResult]
          /\ UNCHANGED resultChan
    /\ epc' = [epc EXCEPT ![c] = "release"]
    /\ UNCHANGED <<cfgVars, runnerVars, workerPool, language, code, ctxLeft,
                   taskVars, shutVars, obsVars>>

\* variant: the deferred receive from the pool is missing
Release_Forgotten(c) ==
    /\ epc[c] = "release"
    /\ ctxLeft' = [ctxLeft EXCEPT ![c] = 0]
    /\ epc' = [epc EXCEPT ![c] = "returned"]
    /\ UNCHANGED <<cfgVars, runnerVars, workerPool, language, code,
                   resultChan, ret, taskVars, shutVars, obsVars>>

\* variant: the token is taken back only on the success path
Release_NotOnTimeout(c) ==
    /\ epc[c] = "release"
    /\ workerPool > 0
    /\ IF ret[c].Success
       THEN /\ workerPool' = workerPool - 1
            /\ released' = [released EXCEPT ![c] = @ + 1]
       ELSE UNCHANGED <<workerPool, released>>
    /\ ctxLeft' = [ctxLeft EXCEPT ![c] = 0]
    /\ epc' = [epc EXCEPT ![c] = "returned"]
    /\ UNCHANGED <<cfgVars, runnerVars, language, code, resultChan, ret,
                   taskVars, shutVars, waited, sinceAdmit, doneAtSend>>

\* the deferred calls, then the return: cancel() closes ctx.Done(),
\* func() { <-e.workerPool }() takes a token back
Release(c) ==
    /\ epc[c] = "release"
    /\ workerPool > 0
    /\ workerPool' = workerPool - 1
    /\ released' = [released EXCEPT ![c] = @ + 1]
    /\ ctxLeft' = [ctxLeft EXCEPT ![c] = 0]
    /\ epc' = [epc EXCEPT ![c] = "returned"]
    /\ UNCHANGED <<cfgVars, runnerVars, language, code, resultChan, ret,
                   taskVars, shutVars, waited, sinceAdmit, doneAtSend>>

\* ---------------------------------------------------- dispatch goroutine
\* variant: the default case falls into the python runner
Dispatch_DefaultPython(c) ==
    /\ tpc[c] = "switch"
    /\ IF language[c] # "nodejs" \/ nodejsAvailable
       THEN /\ tpc' = [tpc EXCEPT ![c] = "create"]
            /\ UNCHANGED result
       ELSE /\ tpc' = [tpc EXCEPT ![c] = "send"]
            /\ result' = [result EXCEPT ![c] =
                  ExecutionResult(FALSE, "", NodeUnavailableMsg)]
    /\ UNCHANGED <<cfgVars, runnerVars, workerPool, execVars, runLeft,
                   killLeft, shutVars, obsVars>>

\* variant: the nodejs case does not look at e.nodejsAvailable
Dispatch_NoAvailabilityCheck(c) ==
    /\ tpc[c] = "switch"
    /\ IF language[c] \in {"python3", "nodejs"}
       THEN /\ tpc' = [tpc EXCEPT ![c] = "create"]
            /\ UNCHANGED result
       ELSE /\ tpc' = [tpc EXCEPT ![c] = "send"]
            /\ result' = [result EXCEPT ![c] =
                  ExecutionResult(FALSE, "", UnsupportedMsg(language[c]))]
    /\ UNCHANGED <<cfgVars, runnerVars, workerPool, execVars, runLeft,
                   killLeft, shutVars, obsVars>>

\* switch language { ... }
Dispatch(c) ==
    /\ tpc[c] = "switch"
    /\ IF language[c] = "python3" \/ (language[c] = "nodejs" /\ nodejsAvailable)
       THEN /\ tpc' = [tpc EXCEPT ![c] = "create"]
            /\ UNCHANGED result
       ELSE /\ tpc' = [tpc EXCEPT ![c] = "send"]
            /\ result' = [result EXCEPT ![c] =
                  IF language[c] = "nodejs"
                  THEN ExecutionResult(FALSE, "", NodeUnavailableMsg)
                  ELSE ExecutionResult(FALSE, "", UnsupportedMsg(language[c]))]
    /\ UNCHANGED <<cfgVars, runnerVars, workerPool, execVars, runLeft,
                   killLeft, shutVars, obsVars>>

\* os.CreateTemp in runPythonCode / runNodeJSCode
CreateTemp(c) ==
    /\ tpc[c] = "create"
    /\ \/ /\ \E n \in FreeNames :
                /\ tmpFile' = [tmpFile EXCEPT ![c] = n]
                /\ tmpDir' = tmpDir \cup {n}
          /\ tpc' = [tpc EXCEPT ![c] = "write"]
          /\ UNCHANGED <<result, outcome>>
       \/ /\ tpc' = [tpc EXCEPT ![c] = "send"]
          /\ result' = [result EXCEPT ![c] =
                           ExecutionResult(FALSE, "", CreateTempFailedMsg)]
          /\ outcome' = [outcome EXCEPT ![c] = "createFailed"]
          /\ UNCHANGED <<tmpFile, tmpDir>>
    /\ UNCHANGED <<cfgVars, workerPool, execVars, runLeft, killLeft, shutVars,
                   obsVars>>

\* the runner returns: its deferred os.Remove runs
RunnerReturns(c, how) ==
    /\ tpc' = [tpc EXCEPT ![c] = "send"]
    /\ tmpDir' = RemoveTemp(tmpDir, tmpFile[c])
    /\ tmpFile' = [tmpFile EXCEPT ![c] = NoFile]
    /\ outcome' = [outcome EXCEPT ![c] = how]

\* tmpFile.WriteString(code); tmpFile.Close(); the process is started
\* under the runner's own deadline, or fails to start
WriteAndStart(c) ==
    /\ tpc[c] = "write"
    /\ \/ /\ RunnerReturns(c, "writeFailed")
          /\ result' = [result EXCEPT ![c] =
                           ExecutionResult(FALSE, "", WriteFailedMsg)]
          /\ UNCHANGED <<runLeft, killLeft>>
       \/ /\ RunnerReturns(c, "spawnFailed")
          /\ result' = [result EXCEPT ![c] = RunResult(FALSE, "", "")]
          /\ UNCHANGED <<runLeft, killLeft>>
       \/ /\ tpc' = [tpc EXCEPT ![c] = "run"]
          /\ runLeft' = [runLeft EXCEPT ![c] = Interp(code[c]).time]
          /\ killLeft' = [killLeft EXCEPT ![c] = RunnerDeadline]
          /\ UNCHANGED <<result, runnerVars>>
    /\ UNCHANGED <<cfgVars, workerPool, execVars, shutVars, obsVars>>

\* cmd.Run() returns because the process ended by itself
ProcExit(c) ==
    /\ tpc[c] = "run"
    /\ runLeft[c] = 0
    /\ result' = [result EXCEPT ![c] =
          RunResult(Interp(code[c]).exit = 0, Interp(code[c]).stdout,
                    Interp(code[c]).stderr)]
    /\ RunnerReturns(c, "exited")
    /\ runLeft' = [runLeft EXCEPT ![c] = 0]
    /\ killLeft' = [killLeft EXCEPT ![c] = 0]
    /\ UNCHANGED <<cfgVars, workerPool, execVars, shutVars, obsVars>>

\* cmd.Run() returns because the runner's context killed the process
ProcKill(c) ==
    /\ tpc[c] = "run"
    /\ killLeft[c] = 0
    /\ result' = [result EXCEPT ![c] =
          RunResult(FALSE, Interp(code[c]).stdout, Interp(code[c]).stderr)]
    /\ RunnerReturns(c, "killed")
    /\ runLeft' = [runLeft EXCEPT ![c] = 0]
    /\ killLeft' = [killLeft EXCEPT ![c] = 0]
    /\ UNCHANGED <<cfgVars, workerPool, execVars, shutVars, obsVars>>

\* variant: make(chan ExecutionResult), a channel without a buffer: the
\* send needs the receiver to be waiting in its select
SendReady_Unbuffered(c) == epc[c] = "select" /\ Len(resultChan[c]) = 0

\* a send on resultChan can proceed: the buffer has room
SendReady(c) == Len(resultChan[c]) < ResultChanCap

\* resultChan <- result
Send(c) ==
    /\ tpc[c] = "send"
    /\ SendReady(c)
    /\ resultChan' = [resultChan EXCEPT ![c] = Append(@, result[c])]
    /\ doneAtSend' = [doneAtSend EXCEPT ![c] = CtxDone(c)]
    /\ tpc' = [tpc EXCEPT ![c] = "done"]
    /\ UNCHANGED <<cfgVars, runnerVars, workerPool, epc, language, code,
                   ctxLeft, ret, result, runLeft, killLeft, shutVars, waited,
                   sinceAdmit, released>>

\* -------------------------------------------------------------- Shutdown
\* a caller invokes e.Shutdown(); numbered in the order of the calls
ShutdownCall(s) ==
    /\ spc[s] = "idle"
    /\ \A t \in Shutdowns : t < s => spc[t] # "idle"
    /\ spc' = [spc EXCEPT ![s] = "loop"]
    /\ si' = [si EXCEPT ![s] = 0]
    /\ UNCHANGED <<cfgVars, runnerVars, workerPool, execVars, taskVars,
                   obsVars>>

\* variant: the loop stops one iteration early
ShutdownLoopCond_OffByOne(s) == si[s] < maxWorkers - 1

\* for i := 0; i < e.maxWorkers; i++
ShutdownLoopCond(s) == si[s] < maxWorkers

\* one iteration: e.workerPool <- struct{}{}; i++
ShutdownAcquire(s) ==
    /\ spc[s] = "loop"
    /\ ShutdownLoopCond(s)
    /\ PoolHasRoom
    /\ workerPool' = workerPool + 1
    /\ si' = [si EXCEPT ![s] = @ + 1]
    /\ UNCHANGED <<cfgVars, runnerVars, execVars, taskVars, spc, obsVars>>

\* variant: Shutdown gives its tokens back before it returns
ShutdownReturn_Releases(s) ==
    /\ spc[s] = "loop"
    /\ ~ShutdownLoopCond(s)
    /\ spc' = [spc EXCEPT ![s] = "returned"]
    /\ workerPool' = workerPool - si[s]
    /\ si' = [si EXCEPT ![s] = 0]
    /\ UNCHANGED <<cfgVars, runnerVars, execVars, taskVars, obsVars>>

\* the loop condition i < e.maxWorkers fails: Shutdown returns
ShutdownReturn(s) ==
    /\ spc[s] = "loop"
    /\ ~ShutdownLoopCond(s)
    /\ spc' = [spc EXCEPT ![s] = "returned"]
    /\ UNCHANGED <<cfgVars, runnerVars, workerPool, execVars, taskVars, si,
                   obsVars>>

\* ------------------------------------------------------------------ time
\* some goroutine has a step it can take now
StepEnabled ==
    \/ \E c \in Calls :
          \/ epc[c] = "acquire" /\ PoolHasRoom
          \/ epc[c] = "select" /\ (ResultReady(c) \/ CtxDone(c))
          \/ epc[c] = "release"
          \/ tpc[c] \in {"switch", "create", "write"}
          \/ tpc[c] = "run" /\ (runLeft[c] = 0 \/ killLeft[c] = 0)
          \/ tpc[c] = "send" /\ SendReady(c)
    \/ \E s \in Shutdowns :
          spc[s] = "loop" /\ (~ShutdownLoopCond(s) \/ PoolHasRoom)

\* a timer is running, or a caller is waiting
TimePasses ==
    \E c \in Calls :
       \/ epc[c] = "select" /\ ctxLeft[c] > 0
       \/ tpc[c] = "run"
       \/ epc[c] = "acquire" /\ waited[c] <= timeout

\* the timers that are running: the deadline of a call that waits in its
\* select, and the two ends of a running interpreter process
Timers ==
    {ctxLeft[c] : c \in {d \in Calls : epc[d] = "select" /\ ctxLeft[d] > 0}}
    \cup {runLeft[c] : c \in {d \in Calls : tpc[d] = "run" /\ runLeft[d] # Forever}}
    \cup {killLeft[c] : c \in {d \in Calls : tpc[d] = "run"}}

Min(S) == CHOOSE n \in S : \A m \in S : n <= m

\* the time to the next instant at which something can happen
NextEvent == IF Timers = {} THEN timeout + 1 ELSE Min(Timers)

\* a stopwatch that stops at timeout + 1
Later(n, d) == IF n + d > timeout THEN timeout + 1 ELSE n + d

Down(n, d) == IF n = Forever THEN Forever ELSE n - d

\* the clock advances to the next event
Tick ==
    /\ ~StepEnabled
    /\ TimePasses
    /\ LET d == NextEvent IN
       /\ ctxLeft' = [c \in Calls |->
             IF epc[c] = "select" /\ ctxLeft[c] > 0 THEN ctxLeft[c] - d ELSE ctxLeft[c]]
       /\ runLeft' = [c \in Calls |->
             IF tpc[c] = "run" THEN Down(runLeft[c], d) ELSE runLeft[c]]
       /\ killLeft' = [c \in Calls |->
             IF tpc[c] = "run" THEN killLeft[c] - d ELSE killLeft[c]]
       /\ waited' = [c \in Calls |->
             IF epc[c] = "acquire" THEN Later(waited[c], d) ELSE waited[c]]
       /\ sinceAdmit' = [c \in Calls |->
             IF epc[c] \in {"select", "release"} THEN Later(sinceAdmit[c], d)
             ELSE sinceAdmit[c]]
    /\ UNCHANGED <<cfgVars, runnerVars, workerPool, epc, language, code,
                   resultChan, ret, tpc, result, shutVars, released,
                   doneAtSend>>

\* --------------------------------------------------------- specification
Next ==
    \/ \E c \in Calls : Call(c)
    \/ \E c \in Calls : Acquire(c)
    \/ \E c \in Calls : Select(c)
    \/ \E c \in Calls : Release(c)
    \/ \E c \in Calls : Dispatch(c)
    \/ \E c \in Calls : CreateTemp(c)
    \/ \E c \in Calls : WriteAndStart(c)
    \/ \E c \in Calls : ProcExit(c)
    \/ \E c \in Calls : ProcKill(c)
    \/ \E c \in Calls : Send(c)
    \/ \E s \in Shutdowns : ShutdownCall(s)
    \/ \E s \in Shutdowns : ShutdownAcquire(s)
    \/ \E s \in Shutdowns : ShutdownReturn(s)
    \/ Tick

Spec == Init /\ [][Next]_vars

\* Execute calls only, no Shutdown; every goroutine that can take a step
\* eventually takes it, and time goes on
NextExecute ==
    \/ \E c \in Calls : Call(c)
    \/ \E c \in Calls : Acquire(c)
    \/ \E c \in Calls : Select(c)
    \/ \E c \in Calls : Release(c)
    \/ \E c \in Calls : Dispatch(c)
    \/ \E c \in Calls : CreateTemp(c)
    \/ \E c \in Calls : WriteAndStart(c)
    \/ \E c \in Calls : ProcExit(c)
    \/ \E c \in Calls : ProcKill(c)
    \/ \E c \in Calls : Send(c)
    \/ Tick

FairExecute ==
    /\ \A c \in Calls :
          /\ WF_vars(Acquire(c)) /\ WF_vars(Select(c)) /\ WF_vars(Release(c))
          /\ WF_vars(Dispatch(c)) /\ WF_vars(CreateTemp(c))
          /\ WF_vars(WriteAndStart(c)) /\ WF_vars(ProcExit(c))
          /\ WF_vars(ProcKill(c)) /\ WF_vars(Send(c))
    /\ WF_vars(Tick)

ExecuteSpec == Init /\ [][NextExecute]_vars /\ FairExecute

\* the Execute calls and exactly one Shutdown call; the goroutine inside
\* Shutdown is scheduled fairly too
NextOneShutdown ==
    \/ \E c \in Calls : Call(c)
    \/ \E c \in Calls : Acquire(c)
    \/ \E c \in Calls : Select(c)
    \/ \E c \in Calls : Release(c)
    \/ \E c \in Calls : Dispatch(c)
    \/ \E c \in Calls : CreateTemp(c)
    \/ \E c \in Calls : WriteAndStart(c)
    \/ \E c \in Calls : ProcExit(c)
    \/ \E c \in Calls : ProcKill(c)
    \/ \E c \in Calls : Send(c)
    \/ ShutdownCall(1)
    \/ ShutdownAcquire(1)
    \/ ShutdownReturn(1)
    \/ Tick

FairOneShutdown ==
    /\ FairExecute
    /\ WF_vars(ShutdownAcquire(1))
    /\ WF_vars(ShutdownReturn(1))

OneShutdownSpec == Init /\ [][NextOneShutdown]_vars /\ FairOneShutdown

\* ================================================================= claims
\* the Execute calls that hold a token: admitted and not yet released
InFlight == {c \in Calls : epc[c] \in {"select", "release"}}

RECURSIVE SumTo(_, _)
SumTo(f, n) == IF n = 0 THEN 0 ELSE f[n] + SumTo(f, n - 1)

\* the tokens put into the pool by Shutdown calls
ShutdownTokens == SumTo(si, NumShutdowns)

SlotsHeld == Cardinality(InFlight) + ShutdownTokens

\* the interpreter processes that are running
Running == {c \in Calls : tpc[c] = "run"}

\* C1: the slots held (Execute calls admitted and not yet released, plus
\* the slots taken by Shutdown) are the tokens in the pool and never more
\* than maxWorkers, and a call is admitted only from a state in which fewer
\* than maxWorkers slots are held.
C1_SlotsBounded ==
    /\ [](SlotsHeld = workerPool /\ SlotsHeld <= maxWorkers)
    /\ [][\A c \in Calls :
            (epc[c] = "acquire" /\ epc'[c] = "select") => SlotsHeld < maxWorkers]_vars

\* a full pool shared by an Execute call and a Shutdown call, one call waiting
C1_Witness ==
    /\ maxWorkers = 2
    /\ SlotsHeld = maxWorkers
    /\ ShutdownTokens = 1
    /\ \E c, d \in Calls : epc[c] = "select" /\ epc[d] = "acquire"

\* C2: with maxWorkers >= 1, never more than maxWorkers interpreter
\* processes run at the same instant.
C2_AtMostNRunning == maxWorkers >= 1 => Cardinality(Running) <= maxWorkers

\* C3: a call that has returned has taken back exactly one token, a call
\* that has not returned has taken back none, and when no Shutdown has taken
\* a token and every call made has returned the pool is empty.
C3_ReleasedOnce ==
    /\ \A c \in Calls : released[c] = (IF epc[c] = "returned" THEN 1 ELSE 0)
    /\ (ShutdownTokens = 0 /\ \A c \in Calls : epc[c] \in {"idle", "returned"})
          => workerPool = 0

\* one call returned the scheduler timeout, another a dispatch result
C3_Witness ==
    /\ workerPool = 0
    /\ \E c, d \in Calls :
          /\ epc[c] = "returned" /\ ret[c] = TimeoutResult
          /\ epc[d] = "returned" /\ ret[d].Success

\* C8: in a state in which a Shutdown call has returned no Execute call is
\* between its admission and the release of its slot.
C8_ShutdownDrains ==
    \A s \in Shutdowns : spc[s] = "returned" => InFlight = {}

\* Shutdown has returned after a call that found the pool full, part of
\* it taken by Shutdown, was admitted before Shutdown got its last slot
C8_Witness ==
    /\ maxWorkers = 2
    /\ \E s \in Shutdowns : spc[s] = "returned"
    /\ \E c \in Calls : epc[c] = "returned" /\ waited[c] > 0

\* C9: in a state in which a Shutdown call has returned (maxWorkers >= 1)
\* no interpreter process started by an Execute call is running.
C9_NothingRunsAfterShutdown ==
    \A s \in Shutdowns :
       (maxWorkers >= 1 /\ spc[s] = "returned") => Running = {}

\* the Runner's interpreter process is still running although Execute has
\* returned: the Runner has taken longer than the call
Outlasted(c) == epc[c] = "returned" /\ tpc[c] = "run"

TimedOut(c) == ~ret[c].Success /\ ret[c].Error = TimeoutMsg(timeout)

\* C4 (as claimed): an Execute call whose Runner takes longer than timeout
\* returns no later than timeout after the call was made, with the
\* timeout failure.
C4_WithinTimeoutOfCall ==
    \A c \in Calls :
       Outlasted(c) => waited[c] + sinceAdmit[c] <= timeout /\ TimedOut(c)

\* C4 (amended): no Execute call holds its slot longer than timeout, and
\* one whose Runner takes longer returns no later than timeout after its
\* admission, with Success = false and the message of the configured timeout.
C4_WithinTimeoutOfAdmission ==
    \A c \in Calls :
       /\ sinceAdmit[c] <= timeout
       /\ Outlasted(c) => TimedOut(c)

\* a call waited for its slot and then ran into its deadline
C4_Witness ==
    \E c \in Calls :
       Outlasted(c) /\ timeout = 2 /\ waited[c] = 2 /\ sinceAdmit[c] = 2

\* the dispatch goroutine has written its result to resultChan
Sent(c) == tpc[c] = "done"

Returning(c) == epc[c] \in {"release", "returned"}

\* C5 (as claimed): the first of the two events decides: a result written
\* before the deadline elapsed is returned unmodified, and when the deadline
\* had elapsed by the time the result was written the timeout is returned.
C5_FirstEventDecides ==
    \A c \in Calls :
       (Returning(c) /\ Sent(c)) =>
          IF doneAtSend[c] THEN TimedOut(c) ELSE ret[c] = result[c]

\* C5 (amended): a result written before the deadline elapsed is returned
\* unmodified; the timeout failure is returned only if the deadline had
\* elapsed by the time the result was written (or none was written yet);
\* a result written after the deadline may still be returned.
C5_EarlyResultWins ==
    \A c \in Calls :
       Returning(c) =>
          /\ (Sent(c) /\ ~doneAtSend[c]) => ret[c] = result[c]
          /\ TimedOut(c) => (~Sent(c) \/ doneAtSend[c])
          /\ TimedOut(c) \/ (Sent(c) /\ ret[c] = result[c])

\* one call returned the result written before its deadline, another one
\* the timeout although its result was written later on
C5_Witness ==
    \E c, d \in Calls :
       /\ epc[c] = "returned" /\ Sent(c) /\ ~doneAtSend[c] /\ ret[c].Success
       /\ epc[d] = "returned" /\ Sent(d) /\ doneAtSend[d] /\ TimedOut(d)

\* the positions of a dispatch goroutine inside a Runner
InRunner == {"create", "write", "run"}

UnsupportedCall(c) ==
    epc[c] # "idle" /\ language[c] \notin {"python3", "nodejs"}

\* C6 (as claimed): a call with an unsupported language tag never enters a
\* Runner and, when it returns, returns Success = false with the error
\* that names the tag.
C6_UnsupportedNamed ==
    \A c \in Calls :
       UnsupportedCall(c) =>
          /\ tpc[c] \notin InRunner
          /\ epc[c] = "returned" =>
                ~ret[c].Success /\ ret[c].Error = UnsupportedMsg(language[c])

\* C6 (amended): such a call never enters a Runner and returns
\* Success = false; the error names the tag when the timeout is at least
\* one second, and with timeout 0 it is that error or the timeout message.
C6_UnsupportedOrTimeout ==
    \A c \in Calls :
       UnsupportedCall(c) =>
          /\ tpc[c] \notin InRunner
          /\ epc[c] = "returned" =>
                /\ ~ret[c].Success
                /\ \/ ret[c].Error = UnsupportedMsg(language[c])
                   \/ timeout = 0 /\ ret[c].Error = TimeoutMsg(timeout)

\* two calls with the same unsupported tag and different code returned
C6_Witness ==
    /\ timeout > 0
    /\ \E c, d \in Calls :
          /\ code[c] # code[d]
          /\ \A e \in {c, d} :
                /\ epc[e] = "returned" /\ tpc[e] = "done"
                /\ ret[e] = ExecutionResult(FALSE, "", "unsupported language: ruby")

NodeMissingCall(c) ==
    epc[c] # "idle" /\ language[c] = "nodejs" /\ ~nodejsAvailable

\* C7 (as claimed): a nodejs call on an executor whose nodejsAvailable is
\* false never enters the Runner and, when it returns, returns
\* Success = false with the error that the runtime is not installed.
C7_NodeMissingReported ==
    \A c \in Calls :
       NodeMissingCall(c) =>
          /\ tpc[c] \notin InRunner
          /\ epc[c] = "returned" =>
                ~ret[c].Success /\ ret[c].Error = NodeUnavailableMsg

\* C7 (amended): such a call never enters the Runner and returns
\* Success = false; the error is the not-installed message when the timeout
\* is at least one second, and with timeout 0 that or the timeout message.
C7_NodeMissingOrTimeout ==
    \A c \in Calls :
       NodeMissingCall(c) =>
          /\ tpc[c] \notin InRunner
          /\ epc[c] = "returned" =>
                /\ ~ret[c].Success
                /\ \/ ret[c].Error = NodeUnavailableMsg
                   \/ timeout = 0 /\ ret[c].Error = TimeoutMsg(timeout)

\* a nodejs call returned the not-installed error
C7_Witness ==
    \E c \in Calls :
       /\ NodeMissingCall(c) /\ epc[c] = "returned" /\ tpc[c] = "done"
       /\ ret[c] = ExecutionResult(FALSE, "", NodeUnavailableMsg)

\* C10: without Shutdown and with maxWorkers >= 1, every Execute call that
\* has been made eventually returns, and returns an ExecutionResult.
C10_EveryCallReturns ==
    \A c \in Calls :
       [](epc[c] = "acquire" /\ maxWorkers >= 1
             => <>(epc[c] = "returned" /\ ret[c] # NoResult))

\* a call that had to wait for a slot has returned
C10_Witness ==
    \E c \in Calls :
       maxWorkers = 1 /\ waited[c] > 0 /\ epc[c] = "returned" /\ ret[c] # NoResult

\* ---------------------------------------------------------------- C11
\* the calls that have their return value
Returned == {c \in Calls : epc[c] \in {"release", "returned"}}

\* C11: every ExecutionResult that Execute returns has an empty Error when
\* Success is true and a non-empty Error when Success is false, whatever
\* produced it (staging, dispatch, the runner, either deadline)
C11_ErrorIffFailure ==
    \A c \in Returned : ret[c].Success <=> ret[c].Error = ""

\* ---------------------------------------------------------------- C12
\* two calls with the same arguments whose runners met the same
\* environment: both started the process, or both failed at the same step
SameRun(c, d) ==
    /\ c # d
    /\ c \in Returned /\ d \in Returned
    /\ code[c] = code[d] /\ language[c] = language[d]
    /\ outcome[c] = outcome[d]

SameOutcome(c, d) ==
    ret[c].Success = ret[d].Success /\ ret[c].Output = ret[d].Output

\* the time cmd.Run() takes: the process ends or the runner kills it
RunTime(cd) ==
    IF Interp(cd).time < RunnerDeadline THEN Interp(cd).time
    ELSE RunnerDeadline

\* the runner's result and ctx.Done() become ready at the same instant
Tie(c) == RunTime(code[c]) = timeout

\* C12 as stated: two Execute calls with identical code and language
\* return the same Success and Output, for every timeout and every
\* interleaving of the dispatch goroutine with the deadline
C12_SameOutcome ==
    \A c, d \in Calls : SameRun(c, d) => SameOutcome(c, d)

\* C12: two Execute calls with identical code and language return the
\* same Success and Output, unless the run takes exactly the timeout
C12_SameOutcomeUnlessTie ==
    \A c, d \in Calls : SameRun(c, d) /\ ~Tie(c) => SameOutcome(c, d)

\* the same failing program run twice to its end, with the same result
C12_Witness ==
    \E c, d \in Calls :
       /\ SameRun(c, d) /\ ~Tie(c)
       /\ code[c] = "fail" /\ outcome[c] = "exited"
       /\ epc[c] = "returned" /\ epc[d] = "returned"
       /\ ret[c] = result[c] /\ ret[d] = result[d]

\* ---------------------------------------------------------------- C13
\* C13: when staging succeeded, a process that exits with status 0 gives
\* {true, stdout, ""}; one that exits with another status, or could not be
\* started, gives {false, stdout, stderr}
C13_RunnerResult ==
    \A c \in Calls :
       /\ outcome[c] = "exited" /\ Interp(code[c]).exit = 0 =>
             result[c] = [Success |-> TRUE, Output |-> Interp(code[c]).stdout,
                          Error |-> ""]
       /\ outcome[c] = "exited" /\ Interp(code[c]).exit # 0 =>
             result[c] = [Success |-> FALSE, Output |-> Interp(code[c]).stdout,
                          Error |-> Interp(code[c]).stderr]
       /\ outcome[c] = "spawnFailed" =>
             result[c] = [Success |-> FALSE, Output |-> "", Error |-> ""]

\* a call has returned what its process wrote before it exited with
\* status 1, and another what its process wrote before it exited with 0
C13_Witness ==
    \E c, d \in Calls :
       /\ outcome[c] = "exited" /\ Interp(code[c]).exit # 0
       /\ epc[c] = "returned" /\ ret[c].Output = "partial"
       /\ ret[c].Error = "Traceback"
       /\ outcome[d] = "exited" /\ Interp(code[d]).exit = 0
       /\ epc[d] = "returned" /\ ret[d].Success

\* ---------------------------------------------------------------- C14
\* err.Error() of the err that cmd.Run() returns for a process killed by
\* the runner's context
KillMsg == "signal: killed"

\* C14: when the runner's own 30 s deadline ends the process, the runner
\* returns Success = false with the kill error of the process as Error
C14_KillTextReported ==
    \A c \in Calls :
       outcome[c] = "killed" =>
          ~result[c].Success /\ result[c].Error = KillMsg

\* ---------------------------------------------------------------- C15
\* the runners between os.CreateTemp and their return
Staged == {c \in Calls : tpc[c] \in {"write", "run"}}

\* C15: every staging file a runner created is removed by the time the
\* runner returns, on every path (write failure, failed or killed or
\* successful process), and two runners that overlap in time never use
\* the same staging file
C15_StagingFiles ==
    /\ tmpDir = {tmpFile[c] : c \in Staged}
    /\ \A c \in Calls : c \in Staged <=> tmpFile[c] # NoFile
    /\ \A c, d \in Staged : c # d => tmpFile[c] # tmpFile[d]

\* one runner has returned after its process was killed and its file is
\* gone, while the runner of the other call still has its own file
C15_Witness ==
    \E c, d \in Calls :
       /\ outcome[c] = "killed" /\ tmpFile[c] = NoFile
       /\ tpc[d] = "run" /\ tmpDir = {tmpFile[d]}

\* ---------------------------------------------------------------- C16
\* C16: with exactly one Shutdown call, maxWorkers >= 1 and finitely many
\* Execute calls, the Shutdown call eventually returns under fair
\* scheduling, whatever Execute calls are in flight or compete with it
C16_ShutdownReturns ==
    [](maxWorkers >= 1 /\ spc[1] = "loop" => <>(spc[1] = "returned"))

\* Shutdown has returned although it had to share a pool of two slots
\* with the Execute calls: a call found the pool full, waited for its slot,
\* and both calls have returned
C16_Witness ==
    /\ maxWorkers = 2
    /\ spc[1] = "returned" /\ spc[2] = "idle"
    /\ \A c \in Calls : epc[c] = "returned"
    /\ \E c \in Calls : waited[c] > 0

\* ---------------------------------------------------------------- C17
\* C17: the result channel has capacity 1 and the dispatch goroutine sends
\* to it once, so the send never blocks, and every dispatch goroutine,
\* abandoned by its Execute call or not, comes to its end
C17_SendNeverBlocks ==
    /\ [](\A c \in Calls : tpc[c] = "send" => SendReady(c))
    /\ \A c \in Calls : [](tpc[c] \notin {"none", "done"} => <>(tpc[c] = "done"))

\* a call returned the scheduler timeout; its goroutine went on, saw the
\* process end, and left the result in the channel nobody reads
C17_Witness ==
    \E c \in Calls :
       /\ epc[c] = "returned" /\ ret[c] = TimeoutResult
       /\ outcome[c] \in {"exited", "killed"}
       /\ tpc[c] = "done" /\ resultChan[c] = <<result[c]>>

\* ---------------------------------------------------------------- C18
\* a Shutdown call on an executor with maxWorkers >= 1 has returned
ShutdownDone == maxWorkers >= 1 /\ \E s \in Shutdowns : spc[s] = "returned"

NotAdmitted == {c \in Calls : epc[c] \in {"idle", "acquire"}}

\* C18: Shutdown never releases its slots: from the moment a Shutdown call
\* (maxWorkers >= 1) has returned the pool is full in every state, and an
\* Execute call not admitted by then is never admitted and never returns
C18_PoolStaysFull ==
    [][ShutdownDone =>
          /\ ShutdownDone'
          /\ workerPool = maxWorkers /\ workerPool' = maxWorkers
          /\ NotAdmitted \subseteq NotAdmitted']_vars

\* Shutdown has returned and a later Execute call has been waiting for a
\* slot for longer than the timeout
C18_Witness ==
    /\ ShutdownDone
    /\ \E c \in Calls : epc[c] = "acquire" /\ waited[c] > timeout

\* ---------------------------------------------------------------- C19
\* two Shutdown calls are in their loops and each holds a token
StuckPair(s, t) ==
    /\ s # t
    /\ spc[s] = "loop" /\ spc[t] = "loop"
    /\ si[s] >= 1 /\ si[t] >= 1

\* C19: of the Shutdown calls on an executor with maxWorkers >= 1 at most
\* one ever returns; and two Shutdown calls that each hold some of the
\* slots stay in their loops for ever
C19_AtMostOneShutdownReturns ==
    /\ [](maxWorkers >= 1 =>
            Cardinality({s \in Shutdowns : spc[s] = "returned"}) <= 1)
    /\ [][\A s, t \in Shutdowns : StuckPair(s, t) => StuckPair(s, t)']_vars

\* maxWorkers >= 2, no Execute call holds a slot, and two concurrent
\* Shutdown calls have shared the whole pool between them
C19_Witness ==
    /\ maxWorkers >= 2 /\ workerPool = maxWorkers /\ InFlight = {}
    /\ \E s, t \in Shutdowns : StuckPair(s, t)

\* ---------------------------------------------------------------- C20
\* C20: with maxWorkers = 0 the pool never holds a token, no Execute call
\* is ever admitted or returns, and a Shutdown call takes no slot: its
\* loop condition is false at once, so it returns without waiting
C20_ZeroWorkers ==
    maxWorkers = 0 =>
       /\ workerPool = 0
       /\ \A c \in Calls : c \in NotAdmitted /\ tpc[c] = "none"
       /\ \A s \in Shutdowns :
             /\ si[s] = 0
             /\ spc[s] = "loop" => ~ShutdownLoopCond(s) /\ ENABLED ShutdownReturn(s)

\* with maxWorkers = 0 a Shutdown call has returned while an Execute call
\* has been waiting for longer than the timeout
C20_Witness ==
    /\ maxWorkers = 0
    /\ \E s \in Shutdowns : spc[s] = "returned"
    /\ \E c \in Calls : epc[c] = "acquire" /\ waited[c] > timeout

====
